---- MODULE Spec2Model ----
(***************************************************************************)
(* TaskManager: the Task entity (src/task.py) and the task store           *)
(* (src/task_manager.py) as a state machine.                               *)
(*                                                                         *)
(* A Python str is a sequence of Unicode code points (97 is "a", 1072 is  *)
(* the Cyrillic "а"), so that trimming, lower-casing, the title pattern,   *)
(* the similarity score and the date formats are computed on characters.   *)
(* A call that may raise returns [ok |-> TRUE, val |-> v] or               *)
(* [ok |-> FALSE, err |-> e, msg |-> m].  A value a Python function binds  *)
(* to a local name and reads more than once is passed here to an operator  *)
(* of its own, which reads it through a parameter.                         *)
(***************************************************************************)
EXTENDS Integers, Sequences, FiniteSets, TLC

VARIABLES
    tasks,       \* TaskManager.tasks: the in-memory list of Task objects
    file,        \* the backing file named by TaskManager.filename
    _id_counter,  \* Task._id_counter, shared by every Task of the process
    manager,     \* whether a TaskManager object exists ("absent" / "ready")
    now,         \* what datetime.now() returns
    pads_year,   \* whether the platform's strftime pads %Y to four digits
    created,     \* ids of the Task objects a caller constructed directly, in order
    last         \* the last call: its name, its id argument and how it ended

vars == <<tasks, file, _id_counter, manager, now, pads_year, created, last>>

Ok(v) == [ok |-> TRUE, val |-> v]
\* an exception of type e whose message names the things in msg
RaiseMsg(e, msg) == [ok |-> FALSE, err |-> e, msg |-> msg]
Raise(e) == RaiseMsg(e, {})

None == <<-1>>   \* Python's None where a str is expected (no str holds code point -1)

----------------------------------------------------------------------------
(* Characters and strings                                                  *)

IsSpace(c) == c \in {32, 9, 10, 13}
IsDigit(c) == c \in 48..57
\* \w of Python's re on str: letters, digits and the underscore
IsWord(c) == c \in 48..57 \/ c \in 65..90 \/ c \in 97..122 \/ c = 95 \/ c \in 1024..1279

\* str.lower() on the Latin and Cyrillic letters
LowerChar(c) ==
    IF c \in 65..90 \/ c \in 1040..1071 THEN c + 32
    ELSE IF c \in 1024..1039 THEN c + 80
    ELSE c
Lower(s) == [i \in 1..Len(s) |-> LowerChar(s[i])]

RECURSIVE LStrip(_)
LStrip(s) == IF s # <<>> /\ IsSpace(Head(s)) THEN LStrip(Tail(s)) ELSE s
RECURSIVE RStrip(_)
RStrip(s) ==
    IF s # <<>> /\ IsSpace(s[Len(s)]) THEN RStrip(SubSeq(s, 1, Len(s) - 1)) ELSE s
Strip(s) == RStrip(LStrip(s))

StartsWith(s, p) == Len(p) <= Len(s) /\ SubSeq(s, 1, Len(p)) = p

\* str(n) of an int
RECURSIVE NatStr(_)
NatStr(n) == IF n < 10 THEN <<48 + n>> ELSE NatStr(n \div 10) \o <<48 + (n % 10)>>
IntStr(n) == IF n < 0 THEN <<45>> \o NatStr(-n) ELSE NatStr(n)

\* int(s) of a string of decimal digits
RECURSIVE StrNat(_)
StrNat(s) == IF s = <<>> THEN 0 ELSE 10 * StrNat(SubSeq(s, 1, Len(s) - 1)) + (s[Len(s)] - 48)

\* str.split(): the maximal runs of non-whitespace characters
RECURSIVE SplitFrom(_, _, _)
SplitFrom(s, i, cur) ==
    IF i > Len(s) THEN (IF cur = <<>> THEN <<>> ELSE <<cur>>)
    ELSE IF IsSpace(s[i])
         THEN (IF cur = <<>> THEN <<>> ELSE <<cur>>) \o SplitFrom(s, i + 1, <<>>)
         ELSE SplitFrom(s, i + 1, Append(cur, s[i]))
Split(s) == SplitFrom(s, 1, <<>>)

----------------------------------------------------------------------------
(* Field Normalizer: Task._normalize_value                                 *)

Max(a, b) == IF a >= b THEN a ELSE b

\* One row of the longest-common-subsequence table: prev is the row of a's
\* prefix without c, the result the row with it (index j+1 holds column j).
RECURSIVE LcsRow(_, _, _, _)
LcsRow(c, b, prev, row) ==
    LET j == Len(row) IN
    IF j > Len(b) THEN row
    ELSE LcsRow(c, b, prev,
                Append(row, IF c = b[j] THEN prev[j] + 1 ELSE Max(prev[j + 1], row[j])))
RECURSIVE LcsRows(_, _, _, _)
LcsRows(a, b, i, prev) ==
    IF i > Len(a) THEN prev[Len(b) + 1]
    ELSE LcsRows(a, b, i + 1, LcsRow(a[i], b, prev, <<0>>))
Lcs(a, b) == LcsRows(a, b, 1, [j \in 1..(Len(b) + 1) |-> 0])

\* fuzz.ratio(a, b) = 100 * (1 - indel(a, b) / (len(a) + len(b))), where
\* indel = len(a) + len(b) - 2 * lcs; two empty strings score 100.  The score
\* is kept as the exact fraction num / den.
Ratio(a, b) ==
    IF Len(a) + Len(b) = 0 THEN [num |-> 100, den |-> 1]
    ELSE [num |-> 200 * Lcs(a, b), den |-> Len(a) + Len(b)]
ScoreLess(p, q) == p.num * q.den < q.num * p.den

Threshold == 70

\* process.extractOne(query, choices, scorer=fuzz.ratio): the first choice of
\* the highest score, None (<<>> here) when there is no choice.
Better(best, candidate) ==
    IF best = <<>> \/ ScoreLess(best[1].score, candidate.score) THEN <<candidate>> ELSE best
RECURSIVE ExtractFrom(_, _, _, _)
ExtractFrom(query, choices, i, best) ==
    IF i > Len(choices) THEN best
    ELSE ExtractFrom(query, choices, i + 1,
                     Better(best, [match |-> choices[i], score |-> Ratio(query, choices[i])]))
ExtractOne(query, choices) == ExtractFrom(query, choices, 1, <<>>)

\* variant of AcceptMatch: the best choice taken whatever its score
AcceptMatch_AnyScore(result) ==
    IF result = <<>> THEN Raise("ValueError") ELSE Ok(result[1].match)

\* the two checks on extractOne's result
AcceptMatch(result) ==
    IF result = <<>> THEN Raise("ValueError")
    ELSE IF ScoreLess(result[1].score, [num |-> Threshold, den |-> 1])
         THEN Raise("ValueError")
         ELSE Ok(result[1].match)

\* variant of _normalize_value: the cleaned input stored without matching
_normalize_value_Unmatched(input_value, valid_values) == Ok(Lower(Strip(input_value)))

_normalize_value(input_value, valid_values) ==
    AcceptMatch(ExtractOne(Lower(Strip(input_value)), valid_values))

Categories ==
    << <<1091, 1095, 1077, 1073, 1072>>,            \* учеба
       <<1088, 1072, 1073, 1086, 1090, 1072>>,      \* работа
       <<1083, 1080, 1095, 1085, 1086, 1077>>,      \* личное
       <<1076, 1086, 1089, 1091, 1075>>,            \* досуг
       <<1076, 1088, 1091, 1075, 1086, 1077>> >>    \* другое
Priorities ==
    << <<1074, 1099, 1089, 1086, 1082, 1080, 1081>>,      \* высокий
       <<1089, 1088, 1077, 1076, 1085, 1080, 1081>>,      \* средний
       <<1085, 1080, 1079, 1082, 1080, 1081>>,            \* низкий
       <<1086, 1090, 1089, 1091, 1090, 1089, 1090, 1074, 1091, 1077, 1090>> >>  \* отсутствует
Statuses ==
    << <<1074, 1099, 1087, 1086, 1083, 1085, 1077, 1085, 1072>>,                  \* выполнена
       <<1085, 1077, 32, 1074, 1099, 1087, 1086, 1083, 1085, 1077, 1085, 1072>>,  \* не выполнена
       <<1074, 32, 1087, 1088, 1086, 1094, 1077, 1089, 1089, 1077>> >>            \* в процессе

Range(f) == {f[i] : i \in DOMAIN f}

----------------------------------------------------------------------------
(* datetime: a point in time is [year, month, day, hour, minute, second]   *)
(* (microseconds, which no operation of the program reads, are left out).  *)

IsLeap(y) == (y % 4 = 0 /\ y % 100 # 0) \/ y % 400 = 0
DaysInMonth(y, m) ==
    IF m = 2 THEN (IF IsLeap(y) THEN 29 ELSE 28)
    ELSE IF m \in {4, 6, 9, 11} THEN 30 ELSE 31

\* the checks of the datetime constructor
ValidDateTime(y, mo, d, h, mi, s) ==
    /\ y \in 1..9999
    /\ mo \in 1..12
    /\ d \in 1..DaysInMonth(y, mo)
    /\ h \in 0..23 /\ mi \in 0..59 /\ s \in 0..59

DateTime(y, mo, d, h, mi, s) ==
    [year |-> y, month |-> mo, day |-> d, hour |-> h, minute |-> mi, second |-> s]

\* datetime + timedelta(days=n), n >= 0, day by day; past year 9999 the sum
\* raises OverflowError
RECURSIVE AddDays(_, _)
AddDays(dt, n) ==
    IF n = 0 THEN Ok(dt)
    ELSE IF dt.day < DaysInMonth(dt.year, dt.month)
         THEN AddDays([dt EXCEPT !.day = @ + 1], n - 1)
         ELSE IF dt.month < 12
              THEN AddDays([dt EXCEPT !.day = 1, !.month = @ + 1], n - 1)
              ELSE IF dt.year < 9999
                   THEN AddDays([dt EXCEPT !.day = 1, !.month = 1, !.year = @ + 1], n - 1)
                   ELSE Raise("OverflowError")

\* datetime + timedelta(days, hours, minutes) with non-negative parts
SetTimeOfDay(moved, total) ==
    IF moved.ok
    THEN Ok([moved.val EXCEPT !.hour = (total % 1440) \div 60, !.minute = total % 60])
    ELSE moved
AddMinutes(dt, days, total) == SetTimeOfDay(AddDays(dt, days + (total \div 1440)), total)
AddDelta(dt, days, hours, minutes) ==
    AddMinutes(dt, days, dt.hour * 60 + dt.minute + hours * 60 + minutes)

\* datetime.replace(year=y, month=m): ValueError when the date does not exist
Replace(dt, y, m) ==
    IF ValidDateTime(y, m, dt.day, dt.hour, dt.minute, dt.second)
    THEN Ok([dt EXCEPT !.year = y, !.month = m])
    ELSE Raise("ValueError")

\* a number as decimal digits, zero-padded to width w
RECURSIVE Pad(_, _)
Pad(s, w) == IF Len(s) >= w THEN s ELSE Pad(<<48>> \o s, w)

\* strftime('%Y-%m-%d %H:%M'): the C library pads %Y to four digits on some
\* platforms and prints the bare number on others (pads); the other fields
\* are always two digits.
Strftime(dt, pads) ==
    (IF pads THEN Pad(NatStr(dt.year), 4) ELSE NatStr(dt.year))
    \o <<45>> \o Pad(NatStr(dt.month), 2) \o <<45>> \o Pad(NatStr(dt.day), 2)
    \o <<32>> \o Pad(NatStr(dt.hour), 2) \o <<58>> \o Pad(NatStr(dt.minute), 2)

----------------------------------------------------------------------------
(* datetime.strptime: the format's regular expression is matched at the    *)
(* start of the text, alternatives in the order the pattern lists them;    *)
(* text left over after the match, or field values that are no date, are a *)
(* ValueError.                                                             *)

DigitAt(s, j) == j <= Len(s) /\ IsDigit(s[j])
TwoDigits(s, j) == (s[j] - 48) * 10 + (s[j + 1] - 48)

\* the alternatives of a directive that match at position j: <<length, value>>
Alternatives(directive, s, j) ==
    LET two == IF DigitAt(s, j) /\ DigitAt(s, j + 1) THEN <<TwoDigits(s, j)>> ELSE <<>>
        one == IF DigitAt(s, j) THEN <<s[j] - 48>> ELSE <<>>
        Two(lo, hi) == IF two # <<>> /\ two[1] \in lo..hi THEN << <<2, two[1]>> >> ELSE <<>>
        One(lo) == IF one # <<>> /\ one[1] >= lo THEN << <<1, one[1]>> >> ELSE <<>>
    IN  CASE directive = 89 ->              \* %Y  \d\d\d\d
               IF \A k \in 0..3 : DigitAt(s, j + k)
               THEN << <<4, StrNat(SubSeq(s, j, j + 3))>> >> ELSE <<>>
          [] directive = 109 -> Two(1, 12) \o One(1)     \* %m  1[0-2]|0[1-9]|[1-9]
          [] directive = 100 ->                          \* %d  3[0-1]|[1-2]\d|0[1-9]|[1-9]| [1-9]
               Two(1, 31) \o One(1)
               \o (IF j <= Len(s) /\ s[j] = 32 /\ DigitAt(s, j + 1) /\ s[j + 1] # 48
                   THEN << <<2, s[j + 1] - 48>> >> ELSE <<>>)
          [] directive = 72 -> Two(0, 23) \o One(0)      \* %H  2[0-3]|[0-1]\d|\d
          [] directive = 77 -> Two(0, 59) \o One(0)      \* %M  [0-5]\d|\d
          [] directive = 83 -> Two(0, 61) \o One(0)      \* %S  6[0-1]|[0-5]\d|\d
          [] OTHER -> <<>>

RECURSIVE SpaceRun(_, _)
SpaceRun(s, j) == IF j <= Len(s) /\ IsSpace(s[j]) THEN 1 + SpaceRun(s, j + 1) ELSE 0

\* the fields found by matching fmt from position i against s from position j:
\* <<>> when there is no match, else <<[end, f]>> with f the directive values
OrElse(found, otherwise) == IF found # <<>> THEN found ELSE otherwise
RECURSIVE Match(_, _, _, _, _)
RECURSIVE FirstAlt(_, _, _, _, _, _, _)
RECURSIVE FirstRun(_, _, _, _, _, _)
Match(fmt, i, s, j, f) ==
    IF i > Len(fmt) THEN <<[end |-> j, f |-> f]>>
    ELSE IF fmt[i] = 37
         THEN FirstAlt(fmt, i, s, j, f, Alternatives(fmt[i + 1], s, j), 1)
         ELSE IF IsSpace(fmt[i])
              THEN FirstRun(fmt, i, s, j, f, SpaceRun(s, j))
              ELSE IF j <= Len(s) /\ LowerChar(s[j]) = LowerChar(fmt[i])
                   THEN Match(fmt, i + 1, s, j + 1, f)
                   ELSE <<>>
FirstAlt(fmt, i, s, j, f, alts, k) ==
    IF k > Len(alts) THEN <<>>
    ELSE OrElse(Match(fmt, i + 2, s, j + alts[k][1], [f EXCEPT ![fmt[i + 1]] = alts[k][2]]),
                FirstAlt(fmt, i, s, j, f, alts, k + 1))
FirstRun(fmt, i, s, j, f, n) ==
    IF n = 0 THEN <<>>
    ELSE OrElse(Match(fmt, i + 1, s, j + n, f), FirstRun(fmt, i, s, j, f, n - 1))

\* the fields of a text that names none: 1900-01-01 00:00:00
DefaultFields == [c \in {89, 109, 100, 72, 77, 83} |->
                    IF c = 89 THEN 1900 ELSE IF c \in {109, 100} THEN 1 ELSE 0]

FromFields(f) ==
    IF ValidDateTime(f[89], f[109], f[100], f[72], f[77], f[83])
    THEN Ok(DateTime(f[89], f[109], f[100], f[72], f[77], f[83]))
    ELSE Raise("ValueError")
Converted(s, m) ==
    IF m = <<>> THEN Raise("ValueError")
    ELSE IF m[1].end # Len(s) + 1 THEN Raise("ValueError")
    ELSE FromFields(m[1].f)
Strptime(s, fmt) == Converted(s, Match(fmt, 1, s, 1, DefaultFields))

----------------------------------------------------------------------------
(* Due-Date Parser: Task._parse_due_date                                   *)

date_formats ==
    << <<37, 89, 45, 37, 109, 45, 37, 100>>,                               \* %Y-%m-%d
       <<37, 89, 45, 37, 109, 45, 37, 100, 32, 37, 72, 58, 37, 77>>,       \* %Y-%m-%d %H:%M
       <<37, 72, 58, 37, 77>>,                                             \* %H:%M
       <<37, 89, 45, 37, 109, 45, 37, 100, 84, 37, 72, 58, 37, 77, 58, 37, 83>> >>  \* %Y-%m-%dT%H:%M:%S
TimeOnlyFormat == 3

units ==
    [year   |-> << <<121, 101, 97, 114>>, <<121, 101, 97, 114, 115>>, <<121>>,
                   <<1075, 1086, 1076>>, <<1075, 1086, 1076, 1099>> >>,
     month  |-> << <<109, 111, 110, 116, 104>>, <<109, 111, 110, 116, 104, 115>>, <<109, 111>>,
                   <<1084, 1077, 1089, 1103, 1094>>, <<1084, 1077, 1089, 1103, 1094, 1099>> >>,
     day    |-> << <<100, 97, 121>>, <<100, 97, 121, 115>>, <<100>>,
                   <<1076, 1077, 1085, 1100>>, <<1076, 1085, 1080>> >>,
     hour   |-> << <<104, 111, 117, 114>>, <<104, 111, 117, 114, 115>>, <<104>>,
                   <<1095, 1072, 1089>>, <<1095, 1072, 1089, 1099>> >>,
     minute |-> << <<109, 105, 110, 117, 116, 101>>, <<109, 105, 110, 117, 116, 101, 115>>, <<109>>,
                   <<1084, 1080, 1085, 1091, 1090, 1072>>, <<1084, 1080, 1085, 1091, 1090, 1099>> >>]
AllUnits == units.year \o units.month \o units.day \o units.hour \o units.minute

RECURSIVE DigitRun(_, _)
DigitRun(s, j) == IF DigitAt(s, j) THEN 1 + DigitRun(s, j + 1) ELSE 0
RECURSIVE WordRun(_, _)
WordRun(s, j) == IF j <= Len(s) /\ IsWord(s[j]) THEN 1 + WordRun(s, j + 1) ELSE 0

\* re.match(r"(\d+)\s*(\w+)", part) on a part that holds no whitespace:
\* <<>> when it does not match, else <<[value, unit]>>.  The digits take all
\* they can and give the last one back to the unit when no word character
\* follows them.
TokenSplit(part, n, w) ==
    IF n = 0 THEN <<>>
    ELSE IF w > 0
         THEN <<[value |-> StrNat(SubSeq(part, 1, n)),
                 unit |-> Lower(SubSeq(part, n + 1, n + w))]>>
         ELSE IF n >= 2
              THEN <<[value |-> StrNat(SubSeq(part, 1, n - 1)), unit |-> SubSeq(part, n, n)]>>
              ELSE <<>>
TokenDigits(part, n) == TokenSplit(part, n, WordRun(part, n + 1))
TokenMatch(part) == TokenDigits(part, DigitRun(part, 1))

NoDelta == [years |-> 0, months |-> 0, days |-> 0, hours |-> 0, minutes |-> 0, matched |-> FALSE]

\* the if/elif chain on normalized_unit
AddAmount(acc, normalized_unit, value) ==
    IF normalized_unit \in Range(units.year) THEN [acc EXCEPT !.years = @ + value, !.matched = TRUE]
    ELSE IF normalized_unit \in Range(units.month) THEN [acc EXCEPT !.months = @ + value, !.matched = TRUE]
    ELSE IF normalized_unit \in Range(units.day) THEN [acc EXCEPT !.days = @ + value, !.matched = TRUE]
    ELSE IF normalized_unit \in Range(units.hour) THEN [acc EXCEPT !.hours = @ + value, !.matched = TRUE]
    ELSE IF normalized_unit \in Range(units.minute) THEN [acc EXCEPT !.minutes = @ + value, !.matched = TRUE]
    ELSE [acc EXCEPT !.matched = TRUE]

\* the loop over due_date.split(): the amounts per unit, or the normalizer's error
RECURSIVE SumParts(_, _, _)
RECURSIVE SumToken(_, _, _, _)
RECURSIVE SumUnit(_, _, _, _, _)
SumParts(parts, i, acc) ==
    IF i > Len(parts) THEN Ok(acc) ELSE SumToken(parts, i, acc, TokenMatch(parts[i]))
SumToken(parts, i, acc, m) ==
    IF m = <<>> THEN SumParts(parts, i + 1, acc)
    ELSE SumUnit(parts, i, acc, m[1].value, _normalize_value(m[1].unit, AllUnits))
SumUnit(parts, i, acc, value, normalized_unit) ==
    IF ~normalized_unit.ok THEN normalized_unit
    ELSE SumParts(parts, i + 1, AddAmount(acc, normalized_unit.val, value))

\* variant of MonthCarry: the month brought into 1..12, the year kept
MonthCarry_KeepYear(year, month) == <<year, ((month - 1) % 12) + 1>>

\* while month > 12: month -= 12; year += 1
RECURSIVE MonthCarry(_, _)
MonthCarry(year, month) ==
    IF month > 12 THEN MonthCarry(year + 1, month - 12) ELSE <<year, month>>

\* now + delta, then the year and month fields replaced
ReplaceYearMonth(dt, ym) == Replace(dt, ym[1], ym[2])
AddMonthsYears(acc, future_date) ==
    IF ~future_date.ok THEN future_date
    ELSE IF acc.months # 0 \/ acc.years # 0
         THEN ReplaceYearMonth(future_date.val,
                               MonthCarry(future_date.val.year + acc.years,
                                          future_date.val.month + acc.months))
         ELSE future_date
Relative(acc, current_date) ==
    AddMonthsYears(acc, AddDelta(current_date, acc.days, acc.hours, acc.minutes))

\* the first of date_formats, from the i-th on, that parses due_date
RECURSIVE Absolute(_, _, _)
RECURSIVE AbsoluteTry(_, _, _, _)
Absolute(due_date, i, current_date) ==
    IF i > Len(date_formats) THEN Raise("ValueError")
    ELSE AbsoluteTry(due_date, i, current_date, Strptime(due_date, date_formats[i]))
AbsoluteTry(due_date, i, current_date, parsed_date) ==
    IF parsed_date.ok
    THEN IF i = TimeOnlyFormat
         THEN Ok(DateTime(current_date.year, current_date.month, current_date.day,
                          parsed_date.val.hour, parsed_date.val.minute, parsed_date.val.second))
         ELSE parsed_date
    ELSE Absolute(due_date, i + 1, current_date)

\* variant of FromParts: no test of match_bool
FromParts_NoMatchTest(acc, current_date) ==
    IF ~acc.ok THEN acc ELSE Relative(acc.val, current_date)

FromParts(acc, current_date) ==
    IF ~acc.ok THEN acc
    ELSE IF ~acc.val.matched THEN Raise("ValueError")
    ELSE Relative(acc.val, current_date)
AbsoluteOrRelative(due_date, current_date, absolute) ==
    IF absolute.ok THEN absolute
    ELSE FromParts(SumParts(Split(due_date), 1, NoDelta), current_date)
_parse_due_date(due_date, current_date) ==
    IF due_date = None THEN Ok(current_date)
    ELSE AbsoluteOrRelative(due_date, current_date, Absolute(due_date, 1, current_date))

----------------------------------------------------------------------------
(* Input texts, and the two parsers tabulated over them.  The tables hold  *)
(* the values of _normalize_value and _parse_due_date on the texts the     *)
(* calls below pass; a text outside a table is computed directly.          *)

Other == <<1076, 1088, 1091, 1075, 1086, 1077>>                                   \* "другое"
Absent == <<1086, 1090, 1089, 1091, 1090, 1089, 1090, 1074, 1091, 1077, 1090>>    \* "отсутствует"
InProgress == <<1074, 32, 1087, 1088, 1086, 1094, 1077, 1089, 1089, 1077>>        \* "в процессе"
Done == <<1074, 1099, 1087, 1086, 1083, 1085, 1077, 1085, 1072>>                  \* "выполнена"

BadTitle == <<33, 120>>                       \* "!x"
BadStatus == <<100, 111, 110, 101>>           \* "done"
PaddedWork == <<32, 1056, 1072, 1073, 1086, 1090, 1072, 32>>   \* " Работа "
Druge == <<1076, 1088, 1091, 1075, 1077>>     \* "друге", one letter short of "другое"
Work == <<119, 111, 114, 107>>                \* "work"
Low == <<1085, 1080, 1079, 1082, 1080, 1081>> \* "низкий"
Urgent == <<117, 114, 103, 101, 110, 116>>    \* "urgent"

NewYearsEve == <<50, 48, 50, 52, 45, 49, 50, 45, 51, 49, 32, 48, 48, 58, 48, 48>>  \* "2024-12-31 00:00"
Year999 == <<48, 57, 57, 57, 45, 48, 49, 45, 48, 50>>    \* "0999-01-02"
OneDay == <<49, 100>>                                    \* "1d"
Abc == <<97, 98, 99>>                                    \* "abc"

\* what datetime.now() returns, in the order the clock passes them
Clock == << DateTime(2024, 1, 31, 23, 30, 15), DateTime(2024, 2, 1, 9, 5, 0) >>

EnumTexts == Range(Categories) \cup Range(Priorities) \cup Range(Statuses)
               \cup {<<>>, BadStatus, PaddedWork, Druge, Work, Urgent}
NormTable ==
    { <<p, _normalize_value(p[1], p[2])>> : p \in EnumTexts \X {Categories, Priorities, Statuses} }
\* the value a table holds for a key, `otherwise` when it holds none
Lookup(table, key, otherwise) ==
    IF \E e \in table : e[1] = key THEN (CHOOSE e \in table : e[1] = key)[2] ELSE otherwise
Normalize(input_value, valid_values) ==
    Lookup(NormTable, <<input_value, valid_values>>, _normalize_value(input_value, valid_values))

DueTexts == {None, <<>>, NewYearsEve, Year999, OneDay, Abc}
ParseTable ==
    { <<p, _parse_due_date(p[1], p[2])>> : p \in DueTexts \X Range(Clock) }
\* the due dates a task can hold, and their forms in the file
DueDates == Range(Clock) \cup {e[2].val : e \in {q \in ParseTable : q[2].ok}}
SavedTexts == {Strftime(d, pads) : d \in DueDates, pads \in BOOLEAN}
ReparseTable ==
    { <<p, _parse_due_date(p[1], p[2])>> : p \in SavedTexts \X Range(Clock) }
AllParsed == ParseTable \cup ReparseTable
ParseDueDate(due_date, current_date) ==
    Lookup(AllParsed, <<due_date, current_date>>, _parse_due_date(due_date, current_date))

----------------------------------------------------------------------------
(* Task Entity: Task.__init__ and Task.to_dict                             *)

\* re.match(r"^[A-Za-zА-Яа-я0-9]", title)
TitleMatch(title) ==
    /\ title # <<>>
    /\ \/ title[1] \in 65..90 \/ title[1] \in 97..122
       \/ title[1] \in 1040..1103 \/ title[1] \in 48..57

NoId == -1000   \* id=None

\* Task(title, description, category, due_date, priority, status, id) with the
\* shared counter at `counter`: the new task and the counter after it, or the
\* first validation error (the counter then keeps its value)
\* variants of NextCounter: an explicit id that leaves the counter alone, and
\* one that moves the counter to the id without passing it
NextCounter_IgnoreExplicit(id, counter) ==
    IF id = NoId THEN counter + 1 ELSE counter
NextCounter_UpToId(id, counter) ==
    IF id = NoId THEN counter + 1 ELSE Max(id, counter)

\* Task._id_counter after the id is assigned: an automatic id is followed by
\* the next one, an explicit id moves the counter past itself
NextCounter(id, counter) ==
    IF id = NoId THEN counter + 1 ELSE Max(id, counter) + 1

\* the assignments of __init__ once the four values are normalised and parsed
Construct(title, description, id, counter, c, p, s, d) ==
    IF ~c.ok THEN c
    ELSE IF ~p.ok THEN p
    ELSE IF ~s.ok THEN s
    ELSE IF ~d.ok THEN d
    ELSE Ok([task |-> [id |-> IF id = NoId THEN counter ELSE id,
                       title |-> title,
                       description |-> IF description \in {None, <<>>} THEN <<>>
                                       ELSE description,
                       category |-> c.val,
                       due_date |-> d.val,
                       priority |-> p.val,
                       status |-> s.val],
             counter |-> NextCounter(id, counter)])

TaskInit(title, description, category, due_date, priority, status, id, counter, current_date) ==
    IF ~TitleMatch(title) THEN RaiseMsg("ValueError", {"title"})
    ELSE Construct(title, description, id, counter,
                   Normalize(category, Categories), Normalize(priority, Priorities),
                   Normalize(status, Statuses), ParseDueDate(due_date, current_date))

to_dict(task, pads) ==
    [id |-> task.id,
     title |-> task.title,
     description |-> task.description,
     category |-> task.category,
     due_date |-> Strftime(task.due_date, pads),
     priority |-> task.priority,
     status |-> task.status]

----------------------------------------------------------------------------
(* Task Store: TaskManager                                                 *)

Filename == "tasks.json"

\* The backing file: absent, or a document that is either plain characters
\* that are no JSON text, or the JSON array of records json.dump wrote.
NoFile == [exists |-> FALSE, kind |-> "chars", chars |-> <<>>, items |-> <<>>]
CharsFile(chars) == [exists |-> TRUE, kind |-> "chars", chars |-> chars, items |-> <<>>]
JsonFile(items) == [exists |-> TRUE, kind |-> "array", chars |-> <<>>, items |-> items]

\* json.loads(content)
JsonLoads(f) ==
    IF f.kind = "array" THEN Ok(f.items) ELSE Raise("JSONDecodeError")

\* the loop of _load_tasks over the records, each constructed with its id
RECURSIVE LoadFrom(_, _, _, _, _)
RECURSIVE LoadTask(_, _, _, _, _, _)
LoadFrom(data, i, loaded, counter, current_date) ==
    IF i > Len(data) THEN [ok |-> TRUE, val |-> loaded, counter |-> counter]
    ELSE LoadTask(data, i, loaded, counter, current_date,
                  TaskInit(data[i].title, data[i].description, data[i].category,
                           data[i].due_date, data[i].priority, data[i].status,
                           data[i].id, counter, current_date))
LoadTask(data, i, loaded, counter, current_date, t) ==
    IF t.ok
    THEN LoadFrom(data, i + 1, Append(loaded, t.val.task), t.val.counter, current_date)
    ELSE [ok |-> FALSE, err |-> t.err, msg |-> t.msg, counter |-> counter]

\* the try block around json.loads and the loop
LoadData(data, counter, current_date) ==
    IF ~data.ok
    THEN [ok |-> FALSE, err |-> "ValueError", msg |-> {Filename}, counter |-> counter]
    ELSE LoadFrom(data.val, 1, <<>>, counter, current_date)

\* variant of _load_tasks: no test for empty content before json.loads
_load_tasks_NoEmptyTest(f, counter, current_date) ==
    IF ~f.exists THEN [ok |-> TRUE, val |-> <<>>, counter |-> counter]
    ELSE LoadData(JsonLoads(f), counter, current_date)

_load_tasks(f, counter, current_date) ==
    IF ~f.exists THEN [ok |-> TRUE, val |-> <<>>, counter |-> counter]
    ELSE IF f.kind = "chars" /\ Strip(f.chars) = <<>>
         THEN [ok |-> TRUE, val |-> <<>>, counter |-> counter]
         ELSE LoadData(JsonLoads(f), counter, current_date)

\* variant of _save_tasks: the file opened in append mode
_save_tasks_Append(f, task_list, pads) ==
    JsonFile(f.items \o [i \in 1..Len(task_list) |-> to_dict(task_list[i], pads)])

\* what _save_tasks leaves of the file f: open(filename, 'w') drops the old
\* content, json.dump writes one record per task
_save_tasks(f, task_list, pads) ==
    JsonFile([i \in 1..Len(task_list) |-> to_dict(task_list[i], pads)])

\* str(datetime): ISO form with a space, the year always four digits
DateStr(dt) ==
    Pad(NatStr(dt.year), 4) \o <<45>> \o Pad(NatStr(dt.month), 2) \o <<45>>
    \o Pad(NatStr(dt.day), 2) \o <<32>> \o Pad(NatStr(dt.hour), 2) \o <<58>>
    \o Pad(NatStr(dt.minute), 2) \o <<58>> \o Pad(NatStr(dt.second), 2)

TaskFields == {"id", "title", "description", "category", "due_date", "priority", "status"}

\* str(getattr(task, field, ""))
FieldStr(task, field) ==
    IF field \notin TaskFields THEN <<>>
    ELSE IF field = "id" THEN IntStr(task.id)
    ELSE IF field = "due_date" THEN DateStr(task.due_date)
    ELSE task[field]

NoField == "None"

search_by_prefix(task_list, prefix, field) ==
    IF field # NoField /\ field # ""
    THEN SelectSeq(task_list, LAMBDA task : StartsWith(FieldStr(task, field), prefix))
    ELSE SelectSeq(task_list, LAMBDA task :
            \/ StartsWith(task.title, prefix)
            \/ StartsWith(task.description, prefix)
            \/ StartsWith(task.category, prefix)
            \/ StartsWith(task.status, prefix)
            \/ StartsWith(IntStr(task.id), prefix)
            \/ StartsWith(DateStr(task.due_date), prefix))

\* result[0] of the prefix search on the id's decimal form
FirstOf(result) == IF result = <<>> THEN Raise("IndexError") ELSE Ok(result[1])
search_by_id(task_list, task_id) ==
    FirstOf(search_by_prefix(task_list, IntStr(task_id), "id"))

\* re.search(pattern, text) for the patterns used here: ordinary characters,
\* "." (any character but a newline), "^" and "$"; a pattern with "(" and no
\* ")" does not compile.
ReCompile(pattern) ==
    IF \E i \in 1..Len(pattern) : pattern[i] = 40 THEN Raise("error") ELSE Ok(pattern)
RECURSIVE ReMatchAt(_, _, _, _)
ReMatchAt(pattern, i, text, j) ==
    IF i > Len(pattern) THEN TRUE
    ELSE IF pattern[i] = 94 THEN j = 1 /\ ReMatchAt(pattern, i + 1, text, j)
    ELSE IF pattern[i] = 36 THEN j = Len(text) + 1 /\ ReMatchAt(pattern, i + 1, text, j)
    ELSE /\ j <= Len(text)
         /\ IF pattern[i] = 46 THEN text[j] # 10 ELSE text[j] = pattern[i]
         /\ ReMatchAt(pattern, i + 1, text, j + 1)
ReSearch(pattern, text) == \E j \in 1..(Len(text) + 1) : ReMatchAt(pattern, 1, text, j)

\* a search's result, with the search_by_* method that produced it
Results(method, val) == [ok |-> TRUE, err |-> "", val |-> val, calls |-> <<method>>]
Failed(method, err) == [ok |-> FALSE, err |-> err, val |-> <<>>, calls |-> <<method>>]

\* the comprehension compiles the pattern at the first task it looks at
search_by_regex(task_list, pattern) ==
    IF task_list # <<>> /\ ~ReCompile(pattern).ok THEN Failed("search_by_regex", "error")
    ELSE Results("search_by_regex",
                 SelectSeq(task_list, LAMBDA task :
                    \/ ReSearch(pattern, task.title)
                    \/ ReSearch(pattern, task.description)
                    \/ ReSearch(pattern, task.category)
                    \/ ReSearch(pattern, task.status)))

\* term in text
Contains(text, term) ==
    \E j \in 0..(Len(text) - Len(term)) : SubSeq(text, j + 1, j + Len(term)) = term

\* variant of search_by_term: the id searched too when no field is given
search_by_term_WithId(task_list, search_term, field) ==
    IF field # NoField /\ field # ""
    THEN SelectSeq(task_list, LAMBDA task : Contains(FieldStr(task, field), search_term))
    ELSE SelectSeq(task_list, LAMBDA task :
            \/ Contains(task.title, search_term)
            \/ Contains(task.description, search_term)
            \/ Contains(task.category, search_term)
            \/ Contains(task.status, search_term)
            \/ Contains(IntStr(task.id), search_term)
            \/ Contains(DateStr(task.due_date), search_term))

search_by_term(task_list, search_term, field) ==
    IF field # NoField /\ field # ""
    THEN SelectSeq(task_list, LAMBDA task : Contains(FieldStr(task, field), search_term))
    ELSE SelectSeq(task_list, LAMBDA task :
            \/ Contains(task.title, search_term)
            \/ Contains(task.description, search_term)
            \/ Contains(task.category, search_term)
            \/ Contains(task.status, search_term)
            \/ Contains(DateStr(task.due_date), search_term))

\* variant of search_tasks: only the leading "/" cut from the pattern
search_tasks_KeepLast(task_list, search_term, field) ==
    IF StartsWith(search_term, <<47>>)
    THEN search_by_regex(task_list, SubSeq(search_term, 2, Len(search_term)))
    ELSE IF StartsWith(search_term, <<94>>)
    THEN Results("search_by_prefix", search_by_prefix(task_list, Tail(search_term), field))
    ELSE Results("search_by_term", search_by_term(task_list, search_term, field))

\* search_term[1:-1] after "/", search_term[1:] after "^"
search_tasks(task_list, search_term, field) ==
    IF StartsWith(search_term, <<47>>)
    THEN search_by_regex(task_list, SubSeq(search_term, 2, Len(search_term) - 1))
    ELSE IF StartsWith(search_term, <<94>>)
    THEN Results("search_by_prefix", search_by_prefix(task_list, Tail(search_term), field))
    ELSE Results("search_by_term", search_by_term(task_list, search_term, field))

\* the list remove_task leaves: `if task_id:` skips the filter for 0 and None
RemoveResult(task_list, task_id) ==
    IF task_id # 0 /\ task_id # NoId
    THEN SelectSeq(task_list, LAMBDA task : task.id # task_id)
    ELSE task_list

\* `if value:` of an optional str argument
Truthy(value) == value # None /\ value # <<>>

\* The body of update_task's `if task.id == task_id` on one task: the fields
\* are assigned in the order title, description, category, due_date, priority,
\* status; an assignment that raises leaves the earlier ones made.
Updated(task) == [ok |-> TRUE, err |-> "", task |-> task]
Assign(task, field, value) ==
    IF value.ok THEN Updated([task EXCEPT ![field] = value.val])
    ELSE [ok |-> FALSE, err |-> value.err, task |-> task]
SetTitle(task, u) ==
    IF Truthy(u.title) THEN [task EXCEPT !.title = u.title] ELSE task
SetDescription(task, u) ==
    IF Truthy(u.description) THEN [task EXCEPT !.description = u.description] ELSE task
SetCategory(task, u) ==
    IF Truthy(u.category) THEN Assign(task, "category", Normalize(u.category, Categories))
    ELSE Updated(task)
SetDueDate(r, u, current_date) ==
    IF r.ok /\ Truthy(u.due_date)
    THEN Assign(r.task, "due_date", ParseDueDate(u.due_date, current_date))
    ELSE r
SetPriority(r, u) ==
    IF r.ok /\ Truthy(u.priority)
    THEN Assign(r.task, "priority", Normalize(u.priority, Priorities))
    ELSE r
SetStatus(r, u) ==
    IF r.ok /\ Truthy(u.status)
    THEN Assign(r.task, "status", Normalize(u.status, Statuses))
    ELSE r
UpdateFields(task, u, current_date) ==
    SetStatus(SetPriority(SetDueDate(SetCategory(SetDescription(SetTitle(task, u), u), u),
                                     u, current_date), u), u)

\* index of the first task with the id, 0 when the loop finds none
RECURSIVE FirstWithId(_, _, _)
FirstWithId(task_list, task_id, i) ==
    IF i > Len(task_list) THEN 0
    ELSE IF task_list[i].id = task_id THEN i
    ELSE FirstWithId(task_list, task_id, i + 1)

NoUpdate == [title |-> None, description |-> None, category |-> None,
             due_date |-> None, priority |-> None, status |-> None]

----------------------------------------------------------------------------
(* The calls, as actions.  Each records in `last` what was called and how   *)
(* it ended.                                                               *)

Call(op, id, r, ret) ==
    [op |-> op, id |-> id, ok |-> r.ok,
     err |-> IF r.ok THEN "" ELSE r.err,
     msg |-> IF r.ok THEN {} ELSE r.msg,
     ret |-> ret]
Returned == [ok |-> TRUE]

\* TaskManager(filename): __init__ runs _load_tasks; when it raises there is
\* no manager object
Loaded(r) ==
    /\ manager' = IF r.ok THEN "ready" ELSE "absent"
    /\ tasks' = IF r.ok THEN r.val ELSE <<>>
    /\ _id_counter' = r.counter
    /\ last' = Call("TaskManager", NoId, r, <<>>)
    /\ UNCHANGED <<file, now, pads_year, created>>
TaskManagerInit == Loaded(_load_tasks(file, _id_counter, now))

\* variant of Added: a construction that raises has taken an id
Added_CountsFailed(t) ==
    /\ manager = "ready"
    /\ IF t.ok
       THEN /\ tasks' = Append(tasks, t.val.task)
            /\ file' = _save_tasks(file, tasks', pads_year)
            /\ _id_counter' = t.val.counter
       ELSE /\ _id_counter' = _id_counter + 1
            /\ UNCHANGED <<tasks, file>>
    /\ last' = Call("add_task", NoId, t, <<>>)
    /\ UNCHANGED <<manager, now, pads_year, created>>

\* add_task: the task is constructed, appended and the list saved
Added(t) ==
    /\ manager = "ready"
    /\ IF t.ok
       THEN /\ tasks' = Append(tasks, t.val.task)
            /\ file' = _save_tasks(file, tasks', pads_year)
            /\ _id_counter' = t.val.counter
       ELSE UNCHANGED <<tasks, file, _id_counter>>
    /\ last' = Call("add_task", NoId, t, <<>>)
    /\ UNCHANGED <<manager, now, pads_year, created>>
add_task(a) ==
    Added(TaskInit(a.title, a.description, a.category, a.due_date, a.priority,
                   a.status, NoId, _id_counter, now))

remove_task(task_id) ==
    /\ manager = "ready"
    /\ tasks' = RemoveResult(tasks, task_id)
    /\ file' = _save_tasks(file, tasks', pads_year)
    /\ last' = Call("remove_task", task_id, Returned, <<>>)
    /\ UNCHANGED <<_id_counter, manager, now, pads_year, created>>

\* update_task(task_id, **u): the first task with the id is updated in place
\* and the list saved; without such a task nothing happens
UpdateTask(op, task_id, i, r) ==
    /\ tasks' = [tasks EXCEPT ![i] = r.task]
    /\ file' = IF r.ok THEN _save_tasks(file, tasks', pads_year) ELSE file
    /\ last' = Call(op, task_id, [ok |-> r.ok, err |-> r.err, msg |-> {}], <<>>)
UpdateAt(op, task_id, u, i) ==
    /\ manager = "ready"
    /\ IF i = 0
       THEN /\ UNCHANGED <<tasks, file>>
            /\ last' = Call(op, task_id, Returned, <<>>)
       ELSE UpdateTask(op, task_id, i, UpdateFields(tasks[i], u, now))
    /\ UNCHANGED <<_id_counter, manager, now, pads_year, created>>
Update(op, task_id, u) == UpdateAt(op, task_id, u, FirstWithId(tasks, task_id, 1))

update_task(task_id, u) == Update("update_task", task_id, u)

mark_as_done(task_id) == Update("mark_as_done", task_id, [NoUpdate EXCEPT !.status = Done])

Found(task_id, r) ==
    /\ manager = "ready"
    /\ last' = Call("search_by_id", task_id,
                    [ok |-> r.ok, err |-> IF r.ok THEN "" ELSE r.err, msg |-> {}],
                    IF r.ok THEN <<r.val>> ELSE <<>>)
    /\ UNCHANGED <<tasks, file, _id_counter, manager, now, pads_year, created>>
SearchById(task_id) == Found(task_id, search_by_id(tasks, task_id))

\* search_tasks(search_term, field): `last` keeps the arguments too
Searched(search_term, field, r) ==
    /\ manager = "ready"
    /\ last' = [op |-> "search_tasks", id |-> NoId, ok |-> r.ok, err |-> r.err, msg |-> {},
                ret |-> r.val, query |-> search_term, field |-> field, calls |-> r.calls]
    /\ UNCHANGED <<tasks, file, _id_counter, manager, now, pads_year, created>>
SearchTasks(search_term, field) ==
    Searched(search_term, field, search_tasks(tasks, search_term, field))

\* Task._normalize_value(input_value, valid_values) called on its own
Normalized(input_value, valid_values, r) ==
    /\ last' = [op |-> "_normalize_value", id |-> NoId, ok |-> r.ok,
                err |-> IF r.ok THEN "" ELSE r.err, msg |-> {},
                ret |-> IF r.ok THEN <<r.val>> ELSE <<>>,
                input |-> input_value, valid |-> valid_values]
    /\ UNCHANGED <<tasks, file, _id_counter, manager, now, pads_year, created>>
NormalizeValue(input_value, valid_values) ==
    Normalized(input_value, valid_values, _normalize_value(input_value, valid_values))

\* Task._parse_due_date(due_date) called on its own
Parsed(due_date, r) ==
    /\ last' = [op |-> "_parse_due_date", id |-> NoId, ok |-> r.ok,
                err |-> IF r.ok THEN "" ELSE r.err, msg |-> {},
                ret |-> IF r.ok THEN <<r.val>> ELSE <<>>, text |-> due_date]
    /\ UNCHANGED <<tasks, file, _id_counter, manager, now, pads_year, created>>
ParseDue(due_date) == Parsed(due_date, _parse_due_date(due_date, now))

\* Task(...) constructed by a caller outside any store
Constructed(id, t) ==
    /\ IF t.ok
       THEN /\ created' = Append(created, [id |-> t.val.task.id, explicit |-> id # NoId])
            /\ _id_counter' = t.val.counter
       ELSE UNCHANGED <<created, _id_counter>>
    /\ last' = Call("Task", id, t, IF t.ok THEN <<t.val.task>> ELSE <<>>)
    /\ UNCHANGED <<tasks, file, manager, now, pads_year>>
TaskNew(a, id) ==
    Constructed(id, TaskInit(a.title, a.description, a.category, a.due_date, a.priority,
                             a.status, id, _id_counter, now))

\* the program ends and is started again: the class attribute starts at 0
ProcessRestart ==
    /\ _id_counter' = 0
    /\ manager' = "absent"
    /\ tasks' = <<>>
    /\ created' = <<>>
    /\ last' = Call("restart", NoId, Returned, <<>>)
    /\ UNCHANGED <<file, now, pads_year>>

----------------------------------------------------------------------------
(* Specifications                                                          *)

\* the defaults of add_task's parameters
Defaults == [title |-> <<84, 49>>,           \* "T1"
             description |-> <<>>,
             category |-> Other,
             due_date |-> None,
             priority |-> Absent,
             status |-> InProgress]

Tick ==
    /\ \E i \in 1..(Len(Clock) - 1) : now = Clock[i] /\ now' = Clock[i + 1]
    /\ UNCHANGED <<tasks, file, _id_counter, manager, pads_year, created, last>>

\* a record as _save_tasks writes it
Record(id, title, due) ==
    [id |-> id, title |-> title, description |-> <<>>, category |-> Other,
     due_date |-> due, priority |-> Absent, status |-> InProgress]

InitialFiles ==
    { NoFile,
      CharsFile(<<>>),                         \* an empty file
      CharsFile(<<32, 10>>),                   \* white space only
      CharsFile(<<123, 120, 125>>),            \* "{x}", no JSON
      JsonFile(<< Record(12, <<84, 49>>, NewYearsEve), Record(1, <<84, 50>>, NewYearsEve) >>) }

Start == [op |-> "start", id |-> NoId, ok |-> TRUE, err |-> "", msg |-> {}, ret |-> <<>>]

\* The program starts: no manager yet, the counter at 0, some file or none.
Init ==
    /\ tasks = <<>>
    /\ file \in InitialFiles
    /\ _id_counter = 0
    /\ manager = "absent"
    /\ now = Clock[1]
    /\ pads_year \in BOOLEAN
    /\ created = <<>>
    /\ last = Start

\* Spec: the store with plain tasks.  add_task is taken while the store holds
\* fewer than MaxTasks tasks and the next automatic id is below MaxAutoId
\* (above the ids of the initial file, so that tasks are added after a load);
\* a manager is constructed while the counter is at most MaxCounter.
MaxTasks == 2
MaxAutoId == 16
MaxCounter == 2

AddArgs ==
    { Defaults,
      [Defaults EXCEPT !.title = BadTitle],
      [Defaults EXCEPT !.category = Work],
      [Defaults EXCEPT !.priority = Urgent],
      [Defaults EXCEPT !.status = BadStatus],
      [Defaults EXCEPT !.due_date = Abc] }
UpdArgs == {[NoUpdate EXCEPT !.status = BadStatus], [NoUpdate EXCEPT !.priority = Low]}
OpIds == {0, 1, 12}

Next ==
    \/ _id_counter <= MaxCounter /\ TaskManagerInit
    \/ \E a \in AddArgs : Len(tasks) < MaxTasks /\ _id_counter < MaxAutoId /\ add_task(a)
    \/ \E k \in OpIds : remove_task(k)
    \/ \E k \in OpIds, u \in UpdArgs : update_task(k, u)
    \/ \E k \in OpIds : mark_as_done(k)
    \/ \E k \in OpIds : SearchById(k)
    \/ ProcessRestart

Spec == Init /\ [][Next]_vars

\* SpecFields: the store with varied field texts, valid and invalid, starting
\* without a file.
MaxFieldTasks == 1
MaxFieldId == 2

InitFields == Init /\ file = NoFile

FieldAddArgs ==
    { [Defaults EXCEPT !.title = t, !.category = c, !.due_date = d, !.status = s] :
        t \in {<<84, 49>>, BadTitle, <<>>}, c \in {Other, PaddedWork, Work},
        d \in {None, Year999, Abc}, s \in {InProgress, BadStatus} }
FieldUpdArgs ==
    { [NoUpdate EXCEPT !.title = BadTitle],
      [NoUpdate EXCEPT !.category = PaddedWork],
      [NoUpdate EXCEPT !.category = Work],
      [NoUpdate EXCEPT !.due_date = Year999],
      [NoUpdate EXCEPT !.due_date = Abc],
      [NoUpdate EXCEPT !.priority = Urgent],
      [NoUpdate EXCEPT !.status = BadStatus],
      [NoUpdate EXCEPT !.category = PaddedWork, !.status = BadStatus] }
FieldIds == {0, 1}

NextFields ==
    \/ _id_counter <= MaxFieldId /\ TaskManagerInit
    \/ \E a \in FieldAddArgs :
          Len(tasks) < MaxFieldTasks /\ _id_counter < MaxFieldId /\ add_task(a)
    \/ \E k \in FieldIds : remove_task(k)
    \/ \E k \in FieldIds, u \in FieldUpdArgs : update_task(k, u)
    \/ \E k \in FieldIds : mark_as_done(k)
    \/ ProcessRestart

SpecFields == InitFields /\ [][NextFields]_vars

\* SpecIds: a caller constructs tasks directly, with explicit ids and without.
MaxCreated == 3
MaxExplicitId == 4

InitIds == Init /\ file = NoFile

NextIds ==
    \/ \E a \in AddArgs, id \in {NoId} \cup 0..MaxExplicitId :
          Len(created) < MaxCreated /\ TaskNew(a, id)
    \/ Tick

SpecIds == InitIds /\ [][NextIds]_vars

\* SpecSearch: searches on a store loaded from two records, and on what
\* removals leave of it.  A manager is constructed while the counter is at
\* most MaxSearchCounter.
MaxSearchCounter == 0

SearchFile ==
    JsonFile(<< [Record(7, <<65, 98>>, NewYearsEve) EXCEPT !.priority = Low],      \* "Ab"
                [Record(12, <<98, 65>>, NewYearsEve) EXCEPT !.description = <<65, 32, 98>>] >>)  \* "bA", "A b"

InitSearch ==
    /\ tasks = <<>>
    /\ file = SearchFile
    /\ _id_counter = 0
    /\ manager = "absent"
    /\ now = Clock[1]
    /\ pads_year \in BOOLEAN
    /\ created = <<>>
    /\ last = Start

Queries ==
    { <<47, 98, 47>>,                          \* "/b/"
      <<47>>,                                  \* "/"
      <<47, 40, 47>>,                          \* "/(/"
      <<47, 65, 46, 47>>,                      \* "/A./"
      <<47, 94, 65, 47>>,                      \* "/^A/"
      <<47, 98, 36, 47>>,                      \* "/b$/"
      <<47, 55, 47>>,                          \* "/7/"
      <<47, 50, 48, 50, 52, 47>>,              \* "/2024/"
      <<94, 65>>,                              \* "^A"
      <<94, 55>>,                              \* "^7"
      <<94, 49>>,                              \* "^1"
      <<94, 50, 48, 50, 52>>,                  \* "^2024"
      <<94>>,                                  \* "^"
      <<65>>,                                  \* "A"
      <<55>>,                                  \* "7"
      <<50, 48, 50, 52>>,                      \* "2024"
      <<45, 49, 50, 45>>,                      \* "-12-"
      <<98>>,                                  \* "b"
      <<>>,                                    \* ""
      Low,                                     \* "низкий", a priority
      <<94>> \o Low,                           \* "^низкий"
      <<47>> \o Low \o <<47>> }                \* "/низкий/"
SearchFields == {NoField, "title", "description", "priority", "id", "due_date", "nofield"}
SearchIds == {7, 12}

NextSearch ==
    \/ _id_counter <= MaxSearchCounter /\ TaskManagerInit
    \/ \E q \in Queries, f \in SearchFields : SearchTasks(q, f)
    \/ \E k \in SearchIds : remove_task(k)

SpecSearch == InitSearch /\ [][NextSearch]_vars


\* SpecNormalize: the normalizer on every text of at most MaxInputLen
\* characters among "a", "b", "A" and the space, and on some category texts,
\* against lists that are empty, hold near and tied choices, or are the
\* categories.
MaxInputLen == 3

RECURSIVE Texts(_, _)
Texts(alphabet, n) ==
    IF n = 0 THEN {<<>>}
    ELSE Texts(alphabet, n - 1)
         \cup {Append(t, c) : t \in {u \in Texts(alphabet, n - 1) : Len(u) = n - 1}, c \in alphabet}
NormInputs == Texts({97, 98, 65, 32}, MaxInputLen) \cup {PaddedWork, Druge, Work}
NormLists ==
    { <<>>,
      << <<97, 98>> >>,                          \* ["ab"]
      << <<97, 98>>, <<98, 97>> >>,              \* ["ab", "ba"]
      << <<97, 97, 98>>, <<97, 98>> >>,          \* ["aab", "ab"]
      << <<97, 98, 98>>, <<97, 97, 98>> >>,      \* ["abb", "aab"]
      Categories }

\* one call in each behaviour
NextNormalize ==
    \E t \in NormInputs, v \in NormLists : last = Start /\ NormalizeValue(t, v)

SpecNormalize == InitFields /\ [][NextNormalize]_vars

\* SpecParse: one due-date text given to _parse_due_date, to Task(...) or to
\* update_task, at one of several current times; before that call a manager
\* is constructed and add_task fills the store up to MaxParseTasks tasks.
MaxParseTasks == 1

ParseTexts ==
    { None,
      <<32, 50, 48, 50, 52, 45, 49, 50, 45, 49, 53>>,                        \* " 2024-12-15"
      <<50, 48, 50, 52, 45, 49, 50, 45, 49, 53>>,                            \* "2024-12-15"
      <<50, 48, 50, 52, 45, 49, 50, 45, 49, 53, 32, 49, 52, 58, 51, 48>>,    \* "2024-12-15 14:30"
      <<49, 52, 58, 51, 48>>,                                                \* "14:30"
      <<55, 58, 53>>,                                                        \* "7:5"
      <<50, 48, 50, 52, 45, 49, 50, 45, 49, 53, 84, 49, 48, 58, 49, 49, 58, 49, 50>>, \* "2024-12-15T10:11:12"
      <<50, 48, 50, 52, 45, 49, 51, 45, 49, 53>>,                            \* "2024-13-15"
      <<50, 48, 50, 52, 45, 48, 50, 45, 51, 48>>,                            \* "2024-02-30"
      <<48, 57, 57, 57, 45, 48, 49, 45, 48, 50>>,                            \* "0999-01-02"
      <<>>,                                                                  \* ""
      <<97, 98, 99>>,                                                        \* "abc"
      <<45, 49, 100>>,                                                       \* "-1d"
      <<49, 32, 100>>,                                                       \* "1 d"
      <<49, 48>>,                                                            \* "10"
      <<49, 120>>,                                                           \* "1x"
      <<49, 100>>,                                                           \* "1d"
      <<50, 104, 32, 51, 48, 109>>,                                          \* "2h 30m"
      <<49, 121, 32, 50, 109, 111>>,                                         \* "1y 2mo"
      <<49, 109, 111>>,                                                      \* "1mo"
      <<49, 49, 109, 111>>,                                                  \* "11mo"
      <<49, 51, 109, 111>>,                                                  \* "13mo"
      <<50, 52, 109, 111>>,                                                  \* "24mo"
      <<52, 48, 100, 32, 51, 48, 104>>,                                      \* "40d 30h"
      <<49, 100, 32, 45, 50, 104>>,                                          \* "1d -2h"
      <<97, 98, 99, 32, 49, 100>> }                                           \* "abc 1d"
ParseNows ==
    { DateTime(2024, 1, 31, 23, 30, 15), DateTime(2024, 2, 1, 9, 5, 0),
      DateTime(2023, 12, 15, 10, 0, 0), DateTime(2024, 11, 30, 0, 59, 59) }

InitParse ==
    /\ tasks = <<>>
    /\ file = NoFile
    /\ _id_counter = 0
    /\ manager = "absent"
    /\ now \in ParseNows
    /\ pads_year \in BOOLEAN
    /\ created = <<>>
    /\ last = Start

DueOnly(text) == [NoUpdate EXCEPT !.due_date = text]
NoCallYet == last.op \in {"start", "TaskManager", "add_task"}

NextParse ==
    \/ manager = "absent" /\ TaskManagerInit
    \/ Len(tasks) < MaxParseTasks /\ add_task(Defaults)
    \/ \E text \in ParseTexts : NoCallYet /\ ParseDue(text)
    \/ \E text \in ParseTexts : NoCallYet /\ TaskNew([Defaults EXCEPT !.due_date = text], NoId)
    \/ \E text \in ParseTexts, k \in FieldIds : NoCallYet /\ update_task(k, DueOnly(text))

SpecParse == InitParse /\ [][NextParse]_vars

----------------------------------------------------------------------------
(* Properties                                                              *)

HasId(task_list, task_id) == \E i \in 1..Len(task_list) : task_list[i].id = task_id

\* C1: remove_task(k), for every store and every id k, 0 included, leaves
\* exactly the former tasks whose id differs from k, in their order.
C1_RemoveLeavesOthers ==
    [][\A k \in OpIds :
          remove_task(k) => tasks' = SelectSeq(tasks, LAMBDA task : task.id # k)]_vars

\* C2: when some task of the store has id k, search_by_id(k) returns a task
\* whose id is k.
C2_SearchByIdExact ==
    (last.op = "search_by_id" /\ HasId(tasks, last.id))
        => (last.ok /\ last.ret # <<>> /\ last.ret[1].id = last.id)

\* C3: when no task of the store has id k, search_by_id(k) raises IndexError
\* and returns no task.
C3_SearchByIdNotFound ==
    (last.op = "search_by_id" /\ ~HasId(tasks, last.id))
        => (~last.ok /\ last.err = "IndexError" /\ last.ret = <<>>)

\* C4: after any sequence of store operations, ended normally or not, every
\* task of the store has a non-empty title that starts with a letter or digit.
C4_TitleInvariant ==
    \A i \in 1..Len(tasks) : TitleMatch(tasks[i].title)

\* C5: after any sequence of store operations, ended normally or not, every
\* task of the store has its category, priority and status among the
\* canonical values.
Canonical(task) ==
    /\ task.category \in Range(Categories)
    /\ task.priority \in Range(Priorities)
    /\ task.status \in Range(Statuses)
C5_EnumInvariant ==
    \A i \in 1..Len(tasks) : Canonical(tasks[i])
\* an update that set the category from " Работа " and then raised on the status
C5_Witness ==
    /\ last.op = "update_task" /\ ~last.ok
    /\ tasks # <<>> /\ tasks[1].category = Categories[2] /\ tasks[1].status = InProgress

\* C6: from an empty store or one loaded from records with distinct ids, the
\* tasks of the store keep pairwise distinct ids through add_task, update_task
\* and remove_task.
C6_UniqueIds ==
    \A i, j \in 1..Len(tasks) : i # j => tasks[i].id # tasks[j].id
\* a task added after a load and a removal
C6_Witness ==
    /\ last.op = "add_task" /\ last.ok
    /\ Len(tasks) = 2 /\ tasks[1].id = 1 /\ tasks[2].id > 12

\* C7: the shared counter is greater than every id assigned so far, and every
\* automatic id is greater than every id assigned before it.
C7_AllocationOrder ==
    /\ \A i \in 1..Len(created) : created[i].id < _id_counter
    /\ \A i, j \in 1..Len(created) :
          (j < i /\ ~created[i].explicit) => created[j].id < created[i].id
\* an explicit id followed by two automatic ones
C7_Witness ==
    /\ Len(created) = 3
    /\ created[1].explicit /\ created[1].id = MaxExplicitId
    /\ ~created[2].explicit /\ ~created[3].explicit

\* C8: when add_task, remove_task, or update_task on an existing id returns
\* normally, the file holds one record per task of the store, in store order,
\* and nothing else.
Mutated ==
    /\ last.ok
    /\ \/ last.op \in {"add_task", "remove_task"}
       \/ last.op = "update_task" /\ HasId(tasks, last.id)
C8_FullRewrite ==
    Mutated => /\ file.exists /\ file.kind = "array"
               /\ file.items = [i \in 1..Len(tasks) |-> to_dict(tasks[i], pads_year)]
\* the first of two loaded tasks removed: its record is gone from the file
C8_Witness ==
    /\ last.op = "remove_task" /\ last.id = 12
    /\ Len(tasks) = 1 /\ tasks[1].id = 1 /\ Len(file.items) = 1

\* C9: for every valid task, constructing a task from its to_dict record
\* succeeds and gives the same task, its due_date cut to the minute.
ValidTask(task) == TitleMatch(task.title) /\ Canonical(task)
Reload(d) ==
    TaskInit(d.title, d.description, d.category, d.due_date, d.priority, d.status,
             d.id, _id_counter, now)
SameTask(task, r) ==
    r.ok /\ r.val.task = [task EXCEPT !.due_date.second = 0]
C9_RoundTrip ==
    \A i \in 1..Len(tasks) :
        ValidTask(tasks[i]) => SameTask(tasks[i], Reload(to_dict(tasks[i], pads_year)))

\* C10: TaskManager on a missing file, or on a file that is empty or white
\* space only, gives an empty collection without error; on a file that holds
\* no well-formed JSON it raises a ValueError that names the file, and there
\* is no store.
EmptyStore == last.ok /\ manager = "ready" /\ tasks = <<>>
Blank(f) == f.kind = "chars" /\ Strip(f.chars) = <<>>
C10_LoadOutcomes ==
    last.op = "TaskManager" =>
        /\ ~file.exists => EmptyStore
        /\ (file.exists /\ Blank(file)) => EmptyStore
        /\ (file.exists /\ ~Blank(file) /\ ~JsonLoads(file).ok)
              => /\ ~last.ok /\ last.err = "ValueError" /\ Filename \in last.msg
                 /\ manager = "absent"
\* the constructor raised on "{x}"
C10_Witness ==
    /\ last.op = "TaskManager" /\ ~last.ok /\ Filename \in last.msg
    /\ file.exists /\ file.chars = <<123, 120, 125>>

\* C11: search_tasks(q, f) is search_by_regex on q without its first and its
\* final character when q starts with "/" (f ignored), search_by_prefix on q
\* without its first character and f when q starts with "^", search_by_term on
\* q and f otherwise; one method is called.
Middle(q) == [i \in 1..(IF Len(q) > 2 THEN Len(q) - 2 ELSE 0) |-> q[i + 1]]
Rest(q) == [i \in 1..(Len(q) - 1) |-> q[i + 1]]
SameOutcome(r) == last.ok = r.ok /\ last.err = r.err /\ last.ret = r.val
Dispatched(q, f) ==
    IF q # <<>> /\ q[1] = 47
    THEN last.calls = <<"search_by_regex">> /\ SameOutcome(search_by_regex(tasks, Middle(q)))
    ELSE IF q # <<>> /\ q[1] = 94
    THEN /\ last.calls = <<"search_by_prefix">>
         /\ last.ok /\ last.ret = search_by_prefix(tasks, Rest(q), f)
    ELSE /\ last.calls = <<"search_by_term">>
         /\ last.ok /\ last.ret = search_by_term(tasks, q, f)
C11_SearchDispatch ==
    last.op = "search_tasks" => Dispatched(last.query, last.field)
\* "/^A/" with a field given: the field is ignored, both tasks are found
C11_Witness ==
    /\ last.op = "search_tasks" /\ last.query = <<47, 94, 65, 47>> /\ last.field = "priority"
    /\ Len(tasks) = 2 /\ last.ret = tasks

\* C12: without a field, a search returns the tasks of the store, in store
\* order, that match in a covered field: title, description, category, status
\* for a regex; these, id and due_date for a prefix; these and due_date, not
\* id, for a substring; priority is never covered.  A search leaves the store
\* and the file as they are.
Covered(method) ==
    {"title", "description", "category", "status"}
    \cup (IF method = "search_by_prefix" THEN {"id", "due_date"} ELSE {})
    \cup (IF method = "search_by_term" THEN {"due_date"} ELSE {})
Hit(method, text, q) ==
    IF method = "search_by_regex" THEN ReSearch(Middle(q), text)
    ELSE IF method = "search_by_prefix" THEN StartsWith(text, Rest(q))
    ELSE Contains(text, q)
Matching(method, q) ==
    SelectSeq(tasks, LAMBDA task :
        \E field \in Covered(method) : Hit(method, FieldStr(task, field), q))
AllFields ==
    (last.op = "search_tasks" /\ last.field = NoField /\ last.ok)
        => last.ret = Matching(last.calls[1], last.query)
C12_FieldCoverage ==
    /\ []AllFields
    /\ [][last'.op = "search_tasks" => (tasks' = tasks /\ file' = file)]_vars
\* "^7" finds the task with id 7, which matches in no other field
C12_Witness ==
    /\ last.op = "search_tasks" /\ last.query = <<94, 55>> /\ last.field = NoField
    /\ Len(tasks) = 2 /\ last.ret = <<tasks[1]>> /\ tasks[1].id = 7

\* C13: the normalizer, on the input trimmed and lowercased, returns a value
\* of the list that scores at least 70, none scoring higher, when there is
\* one; it fails with a ValueError when every value scores below 70 or the
\* list is empty; what it returns is always in the list.
Scores70(text, v) == ~ScoreLess(Ratio(text, v), [num |-> Threshold, den |-> 1])
Accepted(text, valid_values) ==
    IF \E i \in 1..Len(valid_values) : Scores70(text, valid_values[i])
    THEN /\ last.ok /\ last.ret # <<>> /\ last.ret[1] \in Range(valid_values)
         /\ Scores70(text, last.ret[1])
         /\ \A i \in 1..Len(valid_values) :
               ~ScoreLess(Ratio(text, last.ret[1]), Ratio(text, valid_values[i]))
    ELSE ~last.ok /\ last.err = "ValueError" /\ last.ret = <<>>
C13_NormalizerAcceptance ==
    last.op = "_normalize_value" => Accepted(Lower(Strip(last.input)), last.valid)
\* " A" against ["aab", "ab"]: "a" scores 50 and 66, both below 70
C13_Witness ==
    /\ last.op = "_normalize_value" /\ ~last.ok
    /\ last.input = <<32, 65>> /\ last.valid = << <<97, 97, 98>>, <<97, 98>> >>

\* C14: parse(None) is the current time; a text whose trimmed form matches one
\* of the four formats gives the point the first such format denotes:
\* date-only at 00:00, time-only on today's date.
MatchingFormats(text) ==
    {i \in 1..Len(date_formats) : Strptime(text, date_formats[i]).ok}
FirstFormat(text) ==
    CHOOSE i \in MatchingFormats(text) : \A k \in MatchingFormats(text) : i <= k
DenotedBy(i, parsed) ==
    IF i = TimeOnlyFormat
    THEN DateTime(now.year, now.month, now.day, parsed.hour, parsed.minute, parsed.second)
    ELSE parsed
DenotedIn(text, i) == DenotedBy(i, Strptime(text, date_formats[i]).val)
Denoted(text) == DenotedIn(text, FirstFormat(text))
C14_AbsoluteDates ==
    last.op = "_parse_due_date" =>
        /\ last.text = None => (last.ok /\ last.ret = <<now>>)
        /\ (last.text # None /\ MatchingFormats(Strip(last.text)) # {})
              => (last.ok /\ last.ret = <<Denoted(Strip(last.text))>>)

\* C15: a text that matches no format and has no token that starts with an
\* unsigned integer and a unit word makes parse raise a ValueError; Task(...)
\* and update_task given it as due date raise likewise.
Unparseable(text) ==
    /\ text # None
    /\ MatchingFormats(text) = {}
    /\ \A i \in 1..Len(Split(text)) : TokenMatch(Split(text)[i]) = <<>>
ParseRejects ==
    (last.op = "_parse_due_date" /\ Unparseable(last.text))
        => (~last.ok /\ last.err = "ValueError" /\ last.ret = <<>>)
TaskRejects ==
    \A text \in ParseTexts :
        (Unparseable(text) /\ TaskNew([Defaults EXCEPT !.due_date = text], NoId))
            => (~last'.ok /\ last'.err = "ValueError")
UpdateRejects(texts) ==
    \A text \in texts, k \in FieldIds :
        (Unparseable(text) /\ HasId(tasks, k) /\ update_task(k, DueOnly(text)))
            => (~last'.ok /\ last'.err = "ValueError")
C15_Unparseable ==
    /\ []ParseRejects
    /\ [][TaskRejects /\ UpdateRejects(ParseTexts)]_vars
\* C15 as it holds: update_task raises when the text is not empty; an empty
\* due date counts as not given.
C15_UnparseableNonEmpty ==
    /\ []ParseRejects
    /\ [][TaskRejects /\ UpdateRejects(ParseTexts \ {<<>>})]_vars
\* "-1d" given to parse
C15_Witness ==
    /\ last.op = "_parse_due_date" /\ last.text = <<45, 49, 100>>
    /\ ~last.ok /\ last.err = "ValueError"

\* C16: when parse returns for a relative text whose tokens sum to Y years,
\* M months and a duration D, with y and m the year and month of now + D, the
\* result is now + D with month ((m + M - 1) mod 12) + 1 and year
\* y + Y + (m + M - 1) div 12.
Carried(acc, sum) ==
    [sum EXCEPT !.month = ((sum.month + acc.months - 1) % 12) + 1,
                !.year = sum.year + acc.years + ((sum.month + acc.months - 1) \div 12)]
Expected(acc) == Carried(acc, AddDelta(now, acc.days, acc.hours, acc.minutes).val)
IsRelative(text) == text # None /\ MatchingFormats(text) = {}
C16_RelativeArithmetic ==
    (last.op = "_parse_due_date" /\ last.ok /\ IsRelative(last.text))
        => /\ last.ret = <<Expected(SumParts(Split(last.text), 1, NoDelta).val)>>
           /\ last.ret[1].month \in 1..12
\* "13mo" in December 2023: January 2025
C16_Witness ==
    /\ last.op = "_parse_due_date" /\ last.text = <<49, 51, 109, 111>> /\ last.ok
    /\ now.year = 2023 /\ now.month = 12
    /\ last.ret[1].year = 2025 /\ last.ret[1].month = 1 /\ last.ret[1].day = now.day

\* C18: a text that matches no format is taken as a relative expression only
\* when every token is an unsigned integer and a unit word; with a token of
\* another shape parse raises a ValueError.
HasOtherToken(text) ==
    \E i \in 1..Len(Split(text)) : TokenMatch(Split(text)[i]) = <<>>
C18_RelativeStrict ==
    (last.op = "_parse_due_date" /\ IsRelative(last.text) /\ HasOtherToken(last.text))
        => (~last.ok /\ last.err = "ValueError")

\* C17: update_task(k, ...) on a store with a task of id k changes only the
\* given, non-empty fields of the first such task, each to its validated,
\* normalized or parsed value; its id, its other fields, the other tasks and
\* the order stay.  Without a task of id k the store and the file stay and
\* nothing is raised.  mark_as_done(k) is update_task(k, status = "выполнена").
Given(u, field) == Truthy(u[field])
ValueSet(u, field, new) ==
    CASE field = "title" -> TitleMatch(u.title) /\ new = u.title
      [] field = "description" -> new = u.description
      [] field = "category" -> new = Normalize(u.category, Categories).val
      [] field = "priority" -> new = Normalize(u.priority, Priorities).val
      [] field = "status" -> new = Normalize(u.status, Statuses).val
      [] field = "due_date" -> new = ParseDueDate(u.due_date, now).val
FrameAt(u, i) ==
    /\ Len(tasks') = Len(tasks)
    /\ \A j \in 1..Len(tasks) : j # i => tasks'[j] = tasks[j]
    /\ tasks'[i].id = tasks[i].id
    /\ \A field \in DOMAIN u :
          IF Given(u, field)
          THEN last'.ok => ValueSet(u, field, tasks'[i][field])
          ELSE tasks'[i][field] = tasks[i][field]
Frame(k, u) ==
    IF HasId(tasks, k) THEN FrameAt(u, FirstWithId(tasks, k, 1))
    ELSE tasks' = tasks /\ file' = file /\ last'.ok
C17_UpdateFrame ==
    [][/\ \A k \in FieldIds, u \in FieldUpdArgs : update_task(k, u) => Frame(k, u)
       /\ \A k \in FieldIds : mark_as_done(k) => Frame(k, [NoUpdate EXCEPT !.status = Done])]_vars

\* C19: when update_task raises, the task, the rest of the store and the file
\* are as before the call, and the store is what the file holds.
C19_FailedUpdateNoOp ==
    [][\A k \in FieldIds, u \in FieldUpdArgs :
          (update_task(k, u) /\ ~last'.ok)
              => /\ tasks' = tasks /\ file' = file
                 /\ file'.items = [i \in 1..Len(tasks') |-> to_dict(tasks'[i], pads_year)]]_vars

\* C20: an add_task that raises leaves the store, the file and the id counter
\* as they were; one that returns appends one task, with the counter's id, and
\* leaves the tasks before it as they were.
AddEffect ==
    IF last'.ok
    THEN /\ Len(tasks') = Len(tasks) + 1
         /\ SubSeq(tasks', 1, Len(tasks)) = tasks
         /\ tasks'[Len(tasks')].id = _id_counter
    ELSE UNCHANGED <<tasks, file, _id_counter>>
C20_FailedAddNoOp ==
    [][\A a \in AddArgs : add_task(a) => AddEffect]_vars
\* an add_task that raised on a store of one task, the next id still 1
C20_Witness ==
    /\ last.op = "add_task" /\ ~last.ok /\ last.err = "ValueError"
    /\ Len(tasks) = 1 /\ tasks[1].id = 0 /\ _id_counter = 1

\* C21: for every value of now and every relative text whose tokens are all
\* an amount and a recognised unit, with an amount of years or months among
\* them, parse returns and the result is an existing calendar date and time.
Amounts(text) == SumParts(Split(text), 1, NoDelta)
HasYearMonth(acc) == acc.ok /\ acc.val.matched /\ (acc.val.years # 0 \/ acc.val.months # 0)
Resolves(ret) ==
    /\ Len(ret) = 1
    /\ ValidDateTime(ret[1].year, ret[1].month, ret[1].day,
                     ret[1].hour, ret[1].minute, ret[1].second)
C21_RelativeResolves ==
    (/\ last.op = "_parse_due_date" /\ IsRelative(last.text)
     /\ ~HasOtherToken(last.text) /\ HasYearMonth(Amounts(last.text)))
        => (last.ok /\ Resolves(last.ret))

====
